---- MODULE Spec2Model ----
(***************************************************************************)
(* netmon: the telemetry pipeline of src/monitor.py (Scheduler and Metric  *)
(* Store), src/csv_logger.py (startup load, persistence loop, partition    *)
(* files, network label cache) and the cleanup operations of src/main.py   *)
(* and src/manage_data.py.                                                 *)
(*                                                                         *)
(* Time.  An instant is an integer number of ticks since the epoch, one    *)
(* tick being 1/TicksPerSec second.  An ISO timestamp string is modelled   *)
(* by the instant it denotes; the host is taken to run in UTC, so that     *)
(* date.today(), datetime.utcnow().date() and the local-time reading of    *)
(* datetime.fromisoformat(ts).timestamp() agree.                           *)
(*                                                                         *)
(* Values.  Python None is the integer None (-1) where a number is         *)
(* expected and the string NoNetwork where a network name is expected.     *)
(* A latency is a float; the model's latencies are the whole numbers of    *)
(* Latencies, and their CSV text is given by FloatStr.                     *)
(***************************************************************************)
EXTENDS Integers, Sequences, FiniteSets, TLC

(***************************************************************************)
(* Program constants                                                       *)
(***************************************************************************)
\* the first two of the three configured targets
TARGETS == <<"1.1.1.1", "8.8.8.8">>
PING_INTERVAL == 1
CSV_LOG_INTERVAL_SECONDS == 300
_network_cache_duration == 300
SecondsPerDay == 86400
LoadDaysBack == 3
LoadNetworkLimit == 3
LoadTail == 200
CleanupFloor == 7
CleanupSpan == 365

(***************************************************************************)
(* Bounds of the model                                                     *)
(***************************************************************************)
\* capacity of each target's deque (RETENTION_SECONDS, 86400 in config.py)
RETENTION_SECONDS == 3
\* number of Scheduler cycles of one run
MaxCycles == 1
\* day of the process start, counted from the epoch
StartDay == 1000
\* resolution of the clock
TicksPerSec == 2

None == -1
ValueError == -2
\* an exception that leaves ping_once
ProbeError == -3
NoNetwork == ""
Latencies == {10, 20}
Networks == {"home", "cafe"}

TicksPerDay == SecondsPerDay * TicksPerSec
\* the process starts one second before midnight of StartDay
StartTime == (StartDay + 1) * TicksPerDay - TicksPerSec
TargetSet == {TARGETS[i] : i \in 1..Len(TARGETS)}

VARIABLES
    now,                  \* the wall clock, in ticks
    store,                \* metric_store.data: target -> deque of samples
    disk,                 \* raw partition files: <<network, target, day>> -> lines
    mdisk,                \* aggregate partition files, same keys
    dirs,                 \* network directories under logs/
    _current_network,     \* csv_logger._current_network
    _network_check_time,  \* csv_logger._network_check_time
    monI, monWake, monCycles,                 \* monitor thread
    csvPc, csvI, csvWake,                     \* main thread, then csv thread
    network_dirs,         \* load_recent_data's local network_dirs
    last_written,         \* csv_logging_task's local last_written
    last_metrics_logged,  \* csv_logging_task's local last_metrics_logged
    current_time,         \* csv_logging_task's local current_time
    metrics_timestamp,    \* csv_logging_task's local metrics_timestamp
    added,                \* history: every sample passed to add, per target
    appended,             \* history: samples appended to raw files, per target
    sinceDrain,           \* history: "none", "clean" or "dirty" per target
    attempted,            \* history: targets whose drain ran in this cycle
    flushTried,           \* history: the aggregate flush of this cycle ran
    failedTarget,         \* history: target whose raw append failed, or ""
    cycleLabels,          \* history: network labels of the rows of this cycle
    cleanupArg,           \* cleanup: days_to_keep of the last call, or None
    diskBefore,           \* cleanup: raw and aggregate file keys before it
    rtBatch, rtPc, rtRead, \* round trip: batch, position, decoded read
    metrics,              \* HTTP: what the last get_metrics call returned
    response,             \* HTTP: what the last file query returned
    rdPc, rdTarget, rdState, rdCounter, rdView,
                          \* a reader inside list(metric_store.data[target])
    snName, snOut,        \* sanitize_network_name: argument and result
    netCall,              \* what the last get_current_network call did
    pathOut               \* what the last partition path computation gave

vars == <<now, store, disk, mdisk, dirs, _current_network,
          _network_check_time, monI, monWake, monCycles, csvPc, csvI,
          csvWake, network_dirs, last_written, last_metrics_logged,
          current_time, metrics_timestamp, added, appended, sinceDrain,
          attempted, flushTried, failedTarget, cycleLabels, cleanupArg,
          diskBefore, rtBatch, rtPc, rtRead, metrics, response, rdPc,
          rdTarget, rdState, rdCounter, rdView, snName, snOut, netCall,
          pathOut>>

pipelineVars == <<now, store, _current_network, _network_check_time,
                  monI, monWake, monCycles, csvPc, csvI, csvWake,
                  network_dirs, last_written, last_metrics_logged,
                  current_time, metrics_timestamp, added, appended,
                  sinceDrain, attempted, flushTried, failedTarget,
                  cycleLabels>>
cleanupVars == <<cleanupArg, diskBefore>>
rtVars == <<rtBatch, rtPc, rtRead>>
readVars == <<rdPc, rdTarget, rdState, rdCounter, rdView>>
snVars == <<snName, snOut>>
queryVars == <<metrics, response, readVars, snVars, netCall, pathOut>>

(***************************************************************************)
(* Pure helpers                                                            *)
(***************************************************************************)
Min(a, b) == IF a < b THEN a ELSE b

\* the last n elements of s: s[-n:]
LastN(s, n) == IF Len(s) <= n THEN s ELSE SubSeq(s, Len(s) - n + 1, Len(s))

\* [x for x in s if Test(x)]
RECURSIVE SelectSeqBy(_, _)
SelectSeqBy(s, keep) ==
    IF s = <<>> THEN <<>>
    ELSE IF Head(s) \in keep THEN <<Head(s)>> \o SelectSeqBy(Tail(s), keep)
         ELSE SelectSeqBy(Tail(s), keep)

Range(s) == {s[i] : i \in 1..Len(s)}

\* datetime.fromisoformat(ts).date(), as a day number
RecordDate(ts) == ts \div TicksPerDay
\* date.today()
Today(t) == t \div TicksPerDay

\* iso_to_epoch: int(datetime.fromisoformat(ts).timestamp())
iso_to_epoch(ts) == ts \div TicksPerSec


(***************************************************************************)
(* Metric Store (src/monitor.py)                                           *)
(***************************************************************************)
Sample(ts, latency) == [timestamp |-> ts, latency |-> latency]

\* a deque that, when full, drops its newest item instead of its oldest
DequeAppend_EvictNewest(q, x) ==
    IF Len(q) >= RETENTION_SECONDS
    THEN Append(SubSeq(q, 1, Len(q) - 1), x)
    ELSE Append(q, x)

\* deque(maxlen=retention_seconds).append: a full deque drops its oldest item
DequeAppend(q, x) ==
    IF Len(q) >= RETENTION_SECONDS THEN Tail(q) \o <<x>> ELSE Append(q, x)

\* MetricStore.add applied to one target's deque, once per element of xs
RECURSIVE AddAll(_, _)
AddAll(q, xs) ==
    IF xs = <<>> THEN q ELSE AddAll(DequeAppend(q, Head(xs)), Tail(xs))

(***************************************************************************)
(* Aggregate snapshot: MetricStore.get_metrics (src/monitor.py).  Here a   *)
(* latency is counted in thousandths of a millisecond (1500 is 1.5 ms) and *)
(* a reported value in hundredths (75 is 0.75), so that round(x, 2) is a   *)
(* rounding of an exact fraction; None stands for null.                    *)
(***************************************************************************)
\* round(num / den, 2 places already scaled in): the nearest integer to
\* num / den, a tie going to the even neighbour
RoundHalfEven(num, den) ==
    LET q == num \div den
        r == num % den
    IN IF 2 * r < den THEN q
       ELSE IF 2 * r > den THEN q + 1
       ELSE IF q % 2 = 0 THEN q ELSE q + 1

\* the largest r in lo..hi with r * r <= n
RECURSIVE ISqrtIn(_, _, _)
ISqrtIn(n, lo, hi) ==
    IF lo >= hi THEN lo
    ELSE LET mid == (lo + hi + 1) \div 2
         IN IF mid * mid <= n THEN ISqrtIn(n, mid, hi)
            ELSE ISqrtIn(n, lo, mid - 1)

\* floor of the square root of n
ISqrt(n) == ISqrtIn(n, 0, 46340)

\* [r["latency"] for r in records[lo..hi] if r["latency"] is not None]
RECURSIVE ValidBetween(_, _, _)
ValidBetween(records, lo, hi) ==
    IF lo > hi THEN <<>>
    ELSE IF lo = hi
         THEN IF records[lo].latency = None THEN <<>>
              ELSE <<records[lo].latency>>
         ELSE LET mid == (lo + hi) \div 2
              IN ValidBetween(records, lo, mid)
                 \o ValidBetween(records, mid + 1, hi)

valid_latencies(records) == ValidBetween(records, 1, Len(records))

\* sum(v[lo..hi])
RECURSIVE SumBetween(_, _, _)
SumBetween(v, lo, hi) ==
    IF lo > hi THEN 0
    ELSE IF lo = hi THEN v[lo]
         ELSE LET mid == (lo + hi) \div 2
              IN SumBetween(v, lo, mid) + SumBetween(v, mid + 1, hi)

Abs(x) == IF x < 0 THEN 0 - x ELSE x

\* a jitter taken over the latencies in sorted order: the sum of the gaps
\* between neighbours of the sorted list is its largest minus its smallest
AbsDiffSum_Sorted(v, lo, hi) ==
    IF lo > hi THEN 0
    ELSE LET S == {v[i] : i \in (lo - 1)..hi}
         IN (CHOOSE m \in S : \A y \in S : y <= m)
            - (CHOOSE m \in S : \A y \in S : m <= y)

\* sum(abs(v[i] - v[i - 1]) for i in lo..hi), indices counted from 1
RECURSIVE AbsDiffSum(_, _, _)
AbsDiffSum(v, lo, hi) ==
    IF lo > hi THEN 0
    ELSE IF lo = hi THEN Abs(v[lo] - v[lo - 1])
         ELSE LET mid == (lo + hi) \div 2
              IN AbsDiffSum(v, lo, mid) + AbsDiffSum(v, mid + 1, hi)

\* sum((x - avg) ** 2 for x in v[lo..hi]) with avg = total / Len(v),
\* multiplied by Len(v) ** 2
RECURSIVE SqDevSum(_, _, _, _)
SqDevSum(v, total, lo, hi) ==
    IF lo > hi THEN 0
    ELSE IF lo = hi
         THEN (Len(v) * v[lo] - total) * (Len(v) * v[lo] - total)
         ELSE LET mid == (lo + hi) \div 2
              IN SqDevSum(v, total, lo, mid) + SqDevSum(v, total, mid + 1, hi)

\* a loss computed over the valid samples instead of over all of them
PacketLoss_OverValid(n, valid) ==
    IF valid = 0 THEN 10000 ELSE RoundHalfEven(10000 * (n - valid), valid)

\* round(100 * (len(records) - len(valid_latencies)) / len(records), 2)
PacketLoss(n, valid) == RoundHalfEven(10000 * (n - valid), n)

\* a jitter that is null for a single valid latency
Jitter_NullOnSingleton(v) ==
    IF Len(v) > 1
    THEN RoundHalfEven(AbsDiffSum(v, 2, Len(v)), 10 * (Len(v) - 1))
    ELSE None

\* round(jitter, 2): the mean absolute difference of consecutive valid
\* latencies, 0.0 when there is only one
Jitter(v) ==
    IF Len(v) > 1
    THEN RoundHalfEven(AbsDiffSum(v, 2, Len(v)), 10 * (Len(v) - 1))
    ELSE 0

\* round(variance ** 0.5, 2), the variance being sqdev / Len(v) ** 3 for
\* sqdev = SqDevSum(v, sum(v), 1, Len(v)): the nearest hundredth to
\* sqrt(sqdev * Len(v)) / (10 * Len(v) ** 2)
StdDeviation(v) ==
    LET n == Len(v)
        sqdev == SqDevSum(v, SumBetween(v, 1, n), 1, n)
    IN IF sqdev = 0 THEN 0
       ELSE (ISqrt(4 * sqdev * n) + 10 * n * n) \div (20 * n * n)

\* the dictionary get_metrics returns when no sample has a latency
NoLatencyMetrics_ZeroLoss(records, loss) ==
    [packet_loss_percent |-> 0, average_latency |-> None,
     min_latency |-> None, max_latency |-> None, jitter |-> None,
     std_deviation |-> None, records |-> records]

\* the dictionary get_metrics returns when no sample has a latency
NoLatencyMetrics(records, loss) ==
    [packet_loss_percent |-> loss, average_latency |-> None,
     min_latency |-> None, max_latency |-> None, jitter |-> None,
     std_deviation |-> None, records |-> records]

\* MetricStore.get_metrics on records = list(self.data[target])
get_metrics(records) ==
    IF records = <<>> THEN NoLatencyMetrics(<<>>, 10000)
    ELSE LET valid == valid_latencies(records)
             packet_loss == PacketLoss(Len(records), Len(valid))
         IN IF valid = <<>> THEN NoLatencyMetrics(records, packet_loss)
            ELSE LET values == Range(valid)
                     min_latency == CHOOSE m \in values : \A y \in values : m <= y
                     max_latency == CHOOSE m \in values : \A y \in values : y <= m
                 IN [packet_loss_percent |-> packet_loss,
                     average_latency |->
                         RoundHalfEven(SumBetween(valid, 1, Len(valid)),
                                       10 * Len(valid)),
                     min_latency |-> RoundHalfEven(min_latency, 10),
                     max_latency |-> RoundHalfEven(max_latency, 10),
                     jitter |-> Jitter(valid),
                     std_deviation |-> StdDeviation(valid),
                     records |-> records]

(***************************************************************************)
(* Network label (src/csv_logger.py, src/wifi_detector.py)                 *)
(***************************************************************************)
sanitize_network_name(name) ==
    IF name = NoNetwork \/ name = "unknown" THEN "unknown" ELSE name

\* a cache that already expires when its age reaches the duration
CacheStale_AtLimit(t) ==
    \/ _current_network = NoNetwork
    \/ _network_check_time = None
    \/ t - _network_check_time >= _network_cache_duration * TicksPerSec

\* the condition under which get_current_network runs the detection
CacheStale(t) ==
    \/ _current_network = NoNetwork
    \/ _network_check_time = None
    \/ t - _network_check_time > _network_cache_duration * TicksPerSec

\* what a detection may meet: the platform's tools report the SSID of "home"
\* or of "cafe", report no network, the platform is not one of the three
\* supported, or a call raises
DetectOutcomes ==
    {"ssid_home", "ssid_cafe", "not_found", "unsupported", "exception"}

\* get_wifi_network_name(): the sanitized SSID, "unknown" when none is
\* found, when the platform is unsupported and when an exception is caught
get_wifi_network_name(outcome) ==
    CASE outcome = "ssid_home" -> sanitize_network_name("home")
      [] outcome = "ssid_cafe" -> sanitize_network_name("cafe")
      [] OTHER -> "unknown"

\* the value get_current_network returns at instant t, detected being what
\* get_wifi_network_name() returns if it is called
get_current_network(t, detected) ==
    IF CacheStale(t) THEN detected ELSE _current_network

\* the effect of get_current_network on the cache at instant t
CacheUpdate(t, detected) ==
    IF CacheStale(t)
    THEN /\ _current_network' = detected
         /\ _network_check_time' = t
    ELSE UNCHANGED <<_current_network, _network_check_time>>

(***************************************************************************)
(* Partition files (src/csv_logger.py)                                     *)
(***************************************************************************)
\* the path of a partition file: logs/<network>/<year>/<month>/<target>_<date>
get_daily_log_file(target, date_obj, network) ==
    <<sanitize_network_name(network), target, date_obj>>

\* str(float) for the latencies of the model
FloatStr(v) == CASE v = 10 -> "10.0" [] v = 20 -> "20.0" [] OTHER -> "nan"

\* float(text); ValueError when the text is not a number
ParseFloat(text) ==
    CASE text = "10.0" -> 10 [] text = "20.0" -> 20 [] OTHER -> ValueError

\* csv.writer writes None as the empty string and a float as its str
CsvField(v) == IF v = None THEN "" ELSE FloatStr(v)

HeaderRow ==
    [kind |-> "header", timestamp |-> 0, latency_ms |-> "latency_ms",
     network |-> "network"]

\* writer.writerow([record["timestamp"], record["latency"], record["network"]])
DataRow(record, network) ==
    [kind |-> "data", timestamp |-> record.timestamp,
     latency_ms |-> CsvField(record.latency), network |-> network]

RECURSIVE DataRows(_, _)
DataRows(records, network) ==
    IF records = <<>> THEN <<>>
    ELSE <<DataRow(Head(records), network)>> \o DataRows(Tail(records), network)

\* the keys of records_by_date, in insertion order
RECURSIVE DatesInOrder(_)
DatesInOrder(records) ==
    IF records = <<>> THEN <<>>
    ELSE LET rest == DatesInOrder(Tail(records))
             d == RecordDate(Head(records).timestamp)
         IN <<d>> \o SelectSeqBy(rest, Range(rest) \ {d})

\* a grouping that puts the whole batch under every date
DailyRecords_WholeBatch(records, d) == records

\* records_by_date[d]
RECURSIVE DailyRecords(_, _)
DailyRecords(records, d) ==
    IF records = <<>> THEN <<>>
    ELSE IF RecordDate(Head(records).timestamp) = d
         THEN <<Head(records)>> \o DailyRecords(Tail(records), d)
         ELSE DailyRecords(Tail(records), d)

\* an append that writes the header row every time
AppendRows_HeaderEachTime(dsk, key, rows) ==
    IF key \in DOMAIN dsk
    THEN [dsk EXCEPT ![key] = @ \o <<HeaderRow>> \o rows]
    ELSE dsk @@ (key :> (<<HeaderRow>> \o rows))

\* open(log_file, "a"): header if the file is new, then the rows
AppendRows(dsk, key, rows) ==
    IF key \in DOMAIN dsk
    THEN [dsk EXCEPT ![key] = @ \o rows]
    ELSE dsk @@ (key :> (<<HeaderRow>> \o rows))

\* the write loop of append_csv_log over the first n day-groups
RECURSIVE WriteGroups(_, _, _, _, _, _)
WriteGroups(dsk, target, records, network, dates, n) ==
    IF n = 0 \/ dates = <<>> THEN dsk
    ELSE WriteGroups(
             AppendRows(dsk,
                        get_daily_log_file(target, Head(dates), network),
                        DataRows(DailyRecords(records, Head(dates)), network)),
             target, records, network, Tail(dates), n - 1)

\* append_csv_log, of which the first n day-groups are written
append_csv_log(dsk, target, records, network, n) ==
    WriteGroups(dsk, target, records, network, DatesInOrder(records), n)

\* list(csv.DictReader(f)): the first line names the fields
read_csv_as_dict_reader(lines) == IF lines = <<>> THEN <<>> ELSE Tail(lines)

\* the loader's decoding of the latency_ms field
LoadLatency(text) == IF text = "None" THEN None ELSE ParseFloat(text)

\* the samples the loader adds from the rows of one file: it stops at the
\* first row whose latency does not parse (the exception leaves the loop)
RECURSIVE LoadedSamples(_)
LoadedSamples(rows) ==
    IF rows = <<>> THEN <<>>
    ELSE LET latency == LoadLatency(Head(rows).latency_ms)
         IN IF latency = ValueError THEN <<>>
            ELSE <<Sample(Head(rows).timestamp, latency)>>
                 \o LoadedSamples(Tail(rows))

\* the samples load_recent_data adds from one partition file
LoadFile(dsk, key) ==
    IF key \in DOMAIN dsk
    THEN LoadedSamples(LastN(read_csv_as_dict_reader(dsk[key]), LoadTail))
    ELSE <<>>

\* the samples load_recent_data adds for one target from one network
RECURSIVE LoadNetwork(_, _, _, _, _)
LoadNetwork(dsk, target, network, today, days_back) ==
    IF days_back >= LoadDaysBack THEN <<>>
    ELSE LoadFile(dsk, get_daily_log_file(target, today - days_back, network))
         \o LoadNetwork(dsk, target, network, today, days_back + 1)

\* the samples load_recent_data adds for one target from networks_to_check
RECURSIVE LoadNetworks(_, _, _, _)
LoadNetworks(dsk, target, networks, today) ==
    IF networks = <<>> THEN <<>>
    ELSE LoadNetwork(dsk, target, Head(networks), today, 0)
         \o LoadNetworks(dsk, target, Tail(networks), today)

\* the orders in which LOG_DIR.iterdir() may list a set of directories
Orders(S) ==
    {s \in [1..Cardinality(S) -> S] : \A i, j \in DOMAIN s : i # j => s[i] # s[j]}


(***************************************************************************)
(* Aggregate partition files.  An aggregate row is kept by its timestamp   *)
(* and network columns.                                                    *)
(***************************************************************************)
get_daily_metrics_file(target, date_obj, network) ==
    <<sanitize_network_name(network), target, date_obj>>

MetricsHeaderRow == [kind |-> "header", timestamp |-> 0, network |-> "network"]

MetricsRow(ts, network) == [kind |-> "data", timestamp |-> ts, network |-> network]

\* append_metrics_log: header if the file is new, then one row
append_metrics_log(mdsk, target, ts, today, network) ==
    LET key == get_daily_metrics_file(target, today, network)
    IN IF key \in DOMAIN mdsk
       THEN [mdsk EXCEPT ![key] = Append(@, MetricsRow(ts, network))]
       ELSE mdsk @@ (key :> <<MetricsHeaderRow, MetricsRow(ts, network)>>)

(***************************************************************************)
(* The files earlier runs of the program left on disk                      *)
(***************************************************************************)
\* samples an earlier run recorded on network "home": one of the day before
\* the start, two of the day of the start
PrevHome ==
    <<Sample(StartTime - TicksPerDay, 10), Sample(StartTime - 4, 20),
      Sample(StartTime - 3, None)>>
\* samples an earlier run recorded on network "cafe", on the day of the start
PrevCafe == <<Sample(StartTime - 8, 10), Sample(StartTime - 6, 10)>>

\* what earlier runs left behind (the samples recorded on "home" and on
\* "cafe"): a first start with no data, or a start after runs on both networks
PrevRuns == {<< <<>>, <<>> >>, <<PrevHome, PrevCafe>>}

\* what the earlier run's drains and flushes wrote for every target
RECURSIVE PrevDisk(_, _, _)
PrevDisk(i, home, cafe) ==
    IF i = 0 THEN <<>>
    ELSE append_csv_log(
             append_csv_log(PrevDisk(i - 1, home, cafe), TARGETS[i], home,
                            "home", Len(home)),
             TARGETS[i], cafe, "cafe", Len(cafe))

PrevMetrics(dsk) ==
    [key \in DOMAIN dsk |->
        <<MetricsHeaderRow,
          MetricsRow(dsk[key][Len(dsk[key])].timestamp, key[1])>>]

(***************************************************************************)
(* Initial state: the process has imported monitor.py (the store is empty  *)
(* and the monitor thread is started) and is about to run                  *)
(* load_recent_data().                                                     *)
(***************************************************************************)
IdleCleanup ==
    /\ cleanupArg = None
    /\ diskBefore = {}

IdleRoundTrip ==
    /\ rtBatch = <<>>
    /\ rtPc = "off"
    /\ rtRead = <<>>

\* no HTTP query has been answered, no reader is inside a read, and no call
\* of get_current_network and no partition path is on record
IdleHttp ==
    /\ metrics = <<>>
    /\ response = <<>>
    /\ rdPc = "idle"
    /\ rdTarget = ""
    /\ rdState = 0
    /\ rdCounter = 0
    /\ rdView = <<>>
    /\ netCall = <<>>
    /\ pathOut = <<>>

\* and sanitize_network_name has not been called on a spelled-out name
IdleQuery ==
    /\ IdleHttp
    /\ snName = <<>>
    /\ snOut = <<>>

\* the clock, the label cache and the threads' locals at the start
InitLocals ==
    /\ now = StartTime
    /\ _current_network = NoNetwork
    /\ _network_check_time = None
    /\ monI = 1
    /\ monWake = 0
    /\ monCycles = 0
    /\ csvPc = "load"
    /\ csvI = 1
    /\ csvWake = 0
    /\ network_dirs = {}
    /\ last_written = [t \in TargetSet |-> 0]
    /\ last_metrics_logged = 0
    /\ current_time = 0
    /\ metrics_timestamp = 0
    /\ added = [t \in TargetSet |-> <<>>]
    /\ appended = [t \in TargetSet |-> <<>>]
    /\ sinceDrain = [t \in TargetSet |-> "none"]
    /\ attempted = {}
    /\ flushTried = FALSE
    /\ failedTarget = ""
    /\ cycleLabels = {}

InitThreads ==
    /\ store = [t \in TargetSet |-> <<>>]
    /\ InitLocals

Init ==
    /\ InitThreads
    /\ \E prev \in PrevRuns :
          /\ disk = PrevDisk(Len(TARGETS), prev[1], prev[2])
          /\ mdisk = PrevMetrics(disk)
          /\ dirs = {key[1] : key \in DOMAIN disk}
    /\ IdleCleanup
    /\ IdleRoundTrip
    /\ IdleQuery

(***************************************************************************)
(* The clock and the environment                                           *)
(***************************************************************************)
LongStep == CSV_LOG_INTERVAL_SECONDS * TicksPerSec
TickSteps == {1, LongStep}
\* the instants of the model: the start, one persistence interval later,
\* and one tick after that
Instants == {StartTime, StartTime + LongStep, StartTime + LongStep + 1}

Tick ==
    /\ \E d \in TickSteps :
          /\ now + d \in Instants
          /\ now' = now + d
    /\ UNCHANGED <<store, disk, mdisk, dirs, _current_network,
                   _network_check_time, monI, monWake, monCycles,
                   csvPc, csvI, csvWake, network_dirs, last_written,
                   last_metrics_logged, current_time, metrics_timestamp,
                   added, appended, sinceDrain, attempted, flushTried,
                   failedTarget, cycleLabels>>
    /\ UNCHANGED <<cleanupVars, rtVars, queryVars>>

(***************************************************************************)
(* Scheduler: monitor(store) in the monitor thread                         *)
(***************************************************************************)
\* what the ping subprocess of one probe may do: print a reply with its
\* time, exit with a non-zero code (timeout, unreachable), exit with code 0
\* without a "time=" line, or make subprocess.run or float() raise
ProbeOutcomes == {"reply", "no_reply", "no_time", "exception"}

\* a ping_once that lets the exception through
ping_once_Raises(outcome) ==
    IF outcome = "reply" THEN 10
    ELSE IF outcome = "exception" THEN ProbeError ELSE None

\* ping_once: the latency of a reply; None for every other outcome, the
\* exception being caught
ping_once(outcome) == IF outcome = "reply" THEN 10 ELSE None

\* what ping_once may return
ProbeResults == {ping_once(outcome) : outcome \in ProbeOutcomes}

\* one iteration of "for target in TARGETS": ping_once, then store.add with
\* timestamp = datetime.utcnow().isoformat().  The first iteration of a cycle
\* waits for the time.sleep(PING_INTERVAL) that ends the cycle before it.  An
\* exception that left ping_once would leave monitor() and end the thread
MonitorProbe ==
    /\ monI >= 1
    /\ monI = 1 => (now >= monWake /\ monCycles < MaxCycles)
    /\ LET target == TARGETS[monI]
       IN \E latency \in ProbeResults :
             IF latency = ProbeError
             THEN /\ monI' = 0
                  /\ UNCHANGED <<store, added, sinceDrain, monWake, monCycles>>
             ELSE /\ store' = [store EXCEPT
                            ![target] = DequeAppend(@, Sample(now, latency))]
                  /\ added' = [added EXCEPT
                            ![target] = Append(@, Sample(now, latency))]
                  /\ sinceDrain' = [sinceDrain EXCEPT
                            ![target] = IF @ = "clean" THEN "dirty" ELSE @]
                  /\ IF monI < Len(TARGETS)
                     THEN /\ monI' = monI + 1
                          /\ UNCHANGED <<monWake, monCycles>>
                     ELSE /\ monI' = 1
                          /\ monWake' = now + PING_INTERVAL * TicksPerSec
                          /\ monCycles' = monCycles + 1
    /\ UNCHANGED <<now, disk, mdisk, dirs, _current_network,
                   _network_check_time, csvPc, csvI, csvWake, network_dirs,
                   last_written, last_metrics_logged, current_time,
                   metrics_timestamp, appended, attempted, flushTried,
                   failedTarget, cycleLabels>>
    /\ UNCHANGED <<cleanupVars, rtVars, queryVars>>

(***************************************************************************)
(* Startup load: load_recent_data() in the main thread, one target a step. *)
(* After the last target the csv thread is started and csv_logging_task    *)
(* initialises last_written and last_metrics_logged.                       *)
(***************************************************************************)
LoadRecentData ==
    /\ csvPc = "load"
    /\ \E detected \in Networks :
       LET target == TARGETS[csvI]
           listed == IF csvI = 1 THEN dirs ELSE network_dirs
           current_network == get_current_network(now, detected)
       IN /\ network_dirs' = listed
          /\ CacheUpdate(now, detected)
          /\ \E others \in Orders(listed \ {current_network}) :
                LET all == <<current_network>> \o others
                    networks_to_check ==
                        SubSeq(all, 1, Min(LoadNetworkLimit, Len(all)))
                    loaded == LoadNetworks(disk, target, networks_to_check,
                                           Today(now))
                IN /\ store' = [store EXCEPT ![target] = AddAll(@, loaded)]
                   /\ added' = [added EXCEPT ![target] = @ \o loaded]
                   /\ dirs' = dirs \cup {sanitize_network_name(n) :
                                           n \in Range(networks_to_check)}
    /\ IF csvI < Len(TARGETS)
       THEN /\ csvI' = csvI + 1
            /\ UNCHANGED <<csvPc, last_written, last_metrics_logged>>
       ELSE /\ csvPc' = "cycle"
            /\ csvI' = 1
            /\ last_written' = [t \in TargetSet |-> 0]
            /\ last_metrics_logged' = 0
    /\ UNCHANGED <<now, disk, mdisk, monI, monWake, monCycles,
                   csvWake, current_time,
                   metrics_timestamp, appended, sinceDrain, attempted,
                   flushTried, failedTarget, cycleLabels>>
    /\ UNCHANGED <<cleanupVars, rtVars, queryVars>>

(***************************************************************************)
(* Persistence loop: csv_logging_task() in the csv thread                  *)
(***************************************************************************)
\* top of "while True", once the time.sleep(CSV_LOG_INTERVAL_SECONDS) of the
\* cycle before has returned: current_time = time.time()
CycleBegin ==
    /\ csvPc = "cycle"
    /\ now >= csvWake
    /\ current_time' = now
    /\ csvPc' = "drain"
    /\ csvI' = 1
    /\ attempted' = {}
    /\ flushTried' = FALSE
    /\ cycleLabels' = {}
    /\ UNCHANGED <<now, store, disk, mdisk, dirs, _current_network,
                   _network_check_time, monI, monWake, monCycles,
                   csvWake, network_dirs, last_written, last_metrics_logged,
                   metrics_timestamp, added, appended, sinceDrain,
                   failedTarget>>
    /\ UNCHANGED <<cleanupVars, rtVars, queryVars>>

\* a selection that takes the sample at the mark again
NewRecords_AtOrAfter(records, hw) ==
    SelectSeqBy(records,
                {r \in Range(records) : iso_to_epoch(r.timestamp) >= hw})

\* new_records of one drain
NewRecords(records, hw) ==
    SelectSeqBy(records,
                {r \in Range(records) : iso_to_epoch(r.timestamp) > hw})

\* a drain that advances the mark before it knows the append succeeded
LastWrittenAfter_BeforeAppend(hw, new_records, ok) ==
    IF new_records # <<>>
    THEN iso_to_epoch(new_records[Len(new_records)].timestamp)
    ELSE hw

\* a drain that forgets the mark when the append fails
LastWrittenAfter_ResetOnFailure(hw, new_records, ok) ==
    IF new_records = <<>> THEN hw
    ELSE IF ok THEN iso_to_epoch(new_records[Len(new_records)].timestamp)
         ELSE 0

\* last_written[target] after a drain of new_records; ok tells whether
\* append_csv_log returned (TRUE) or raised (FALSE)
LastWrittenAfter(hw, new_records, ok) ==
    IF new_records # <<>> /\ ok
    THEN iso_to_epoch(new_records[Len(new_records)].timestamp)
    ELSE hw

\* the records of the first n day-groups of a batch, in the order written
RECURSIVE RecordsOfGroups(_, _, _)
RecordsOfGroups(records, dates, n) ==
    IF n = 0 \/ dates = <<>> THEN <<>>
    ELSE DailyRecords(records, Head(dates))
         \o RecordsOfGroups(records, Tail(dates), n - 1)

\* where the cycle goes after the drain of target number i
AfterDrain(i) ==
    IF i < Len(TARGETS)
    THEN /\ csvI' = i + 1
         /\ UNCHANGED csvPc
    ELSE /\ csvPc' = "flush"
         /\ csvI' = 1

\* one iteration of the drain loop: the store is read, the new records are
\* appended by append_csv_log, whose open() may raise at any day-group, and
\* the high-water mark is advanced; an exception leaves csv_logging_task
Drain ==
    /\ csvPc = "drain"
    /\ \E detected \in Networks :
       LET target == TARGETS[csvI]
           records == store[target]
           new_records == NewRecords(records, last_written[target])
           dates == DatesInOrder(new_records)
           current_network == get_current_network(now, detected)
       IN /\ attempted' = attempted \cup {target}
          /\ IF new_records = <<>>
             THEN /\ AfterDrain(csvI)
                  /\ sinceDrain' = [sinceDrain EXCEPT ![target] = "clean"]
                  /\ UNCHANGED <<disk, dirs, _current_network,
                                 _network_check_time, last_written, appended,
                                 failedTarget, cycleLabels>>
             ELSE /\ CacheUpdate(now, detected)
                  /\ dirs' = dirs \cup {sanitize_network_name(current_network)}
                  /\ \E n \in 0..Len(dates) :
                        LET ok == (n = Len(dates))
                        IN /\ disk' = append_csv_log(disk, target, new_records,
                                                     current_network, n)
                           /\ appended' = [appended EXCEPT ![target] =
                                  @ \o RecordsOfGroups(new_records, dates, n)]
                           /\ cycleLabels' = IF n = 0 THEN cycleLabels
                                  ELSE cycleLabels \cup {current_network}
                           /\ last_written' = [last_written EXCEPT ![target] =
                                  LastWrittenAfter(@, new_records, ok)]
                           /\ IF ok
                              THEN /\ AfterDrain(csvI)
                                   /\ sinceDrain' = [sinceDrain EXCEPT
                                                       ![target] = "clean"]
                                   /\ UNCHANGED failedTarget
                              ELSE /\ csvPc' = "dead"
                                   /\ failedTarget' = target
                                   /\ UNCHANGED <<csvI, sinceDrain>>
    /\ UNCHANGED <<now, store, mdisk, monI, monWake, monCycles,
                   csvWake, network_dirs, last_metrics_logged, current_time,
                   metrics_timestamp, added, flushTried>>
    /\ UNCHANGED <<cleanupVars, rtVars, queryVars>>

\* a test that lets the flush wait for more than the interval
FlushDue_Later(t, logged) == t - logged > CSV_LOG_INTERVAL_SECONDS * TicksPerSec

\* "if current_time - last_metrics_logged >= CSV_LOG_INTERVAL_SECONDS"
FlushDue(t, logged) == t - logged >= CSV_LOG_INTERVAL_SECONDS * TicksPerSec

\* time.sleep(CSV_LOG_INTERVAL_SECONDS) begins
GoToSleep ==
    /\ csvPc' = "cycle"
    /\ csvI' = 1
    /\ csvWake' = now + CSV_LOG_INTERVAL_SECONDS * TicksPerSec

\* the aggregate flush, one target a step.  The first step tests whether the
\* flush is due and takes metrics_timestamp; each step runs get_metrics and
\* append_metrics_log, whose open() may raise; the last step sets
\* last_metrics_logged, and the thread sleeps
Flush ==
    /\ csvPc = "flush"
    /\ IF csvI = 1 /\ ~FlushDue(current_time, last_metrics_logged)
       THEN /\ GoToSleep
            /\ UNCHANGED <<mdisk, dirs, _current_network, _network_check_time,
                           last_metrics_logged, metrics_timestamp, flushTried,
                           cycleLabels>>
       ELSE \E detected \in Networks :
            LET target == TARGETS[csvI]
                ts == IF csvI = 1 THEN now ELSE metrics_timestamp
                current_network == get_current_network(now, detected)
            IN /\ metrics_timestamp' = ts
               /\ flushTried' = TRUE
               /\ CacheUpdate(now, detected)
               /\ dirs' = dirs \cup {sanitize_network_name(current_network)}
               /\ \E ok \in BOOLEAN :
                     IF ok
                     THEN /\ mdisk' = append_metrics_log(mdisk, target, ts,
                                          Today(now), current_network)
                          /\ cycleLabels' = cycleLabels \cup {current_network}
                          /\ IF csvI < Len(TARGETS)
                             THEN /\ csvI' = csvI + 1
                                  /\ UNCHANGED <<csvPc, csvWake,
                                                 last_metrics_logged>>
                             ELSE /\ last_metrics_logged' = current_time
                                  /\ GoToSleep
                     ELSE /\ csvPc' = "dead"
                          /\ UNCHANGED <<mdisk, csvI, csvWake,
                                         last_metrics_logged, cycleLabels>>
    /\ UNCHANGED <<now, store, disk, monI, monWake, monCycles,
                   network_dirs, last_written, current_time,
                   added, appended, sinceDrain, attempted,
                   failedTarget>>
    /\ UNCHANGED <<cleanupVars, rtVars, queryVars>>

Next ==
    \/ Tick
    \/ MonitorProbe
    \/ LoadRecentData
    \/ CycleBegin
    \/ Drain
    \/ Flush

Spec == Init /\ [][Next]_vars

TypeOK ==
    /\ now \in Instants
    /\ \A t \in TargetSet : Len(store[t]) <= RETENTION_SECONDS


(***************************************************************************)
(* A quick restart: the earlier run took its last sample in the tick in    *)
(* which the process starts again, and the clock can also advance by a     *)
(* single tick, so that the first probe of the run falls in the second of  *)
(* that sample.  The threads are those of Spec.                            *)
(***************************************************************************)
\* the sample the earlier run recorded last, on network "home"
PrevLast == <<Sample(StartTime, 20)>>

InitRestart ==
    /\ InitThreads
    /\ disk = PrevDisk(Len(TARGETS), PrevLast, <<>>)
    /\ mdisk = PrevMetrics(disk)
    /\ dirs = {key[1] : key \in DOMAIN disk}
    /\ IdleCleanup
    /\ IdleRoundTrip
    /\ IdleQuery

\* the clock advances by one tick, half a second into the run
TickOnce ==
    /\ now = StartTime
    /\ now' = now + 1
    /\ UNCHANGED <<store, disk, mdisk, dirs, _current_network,
                   _network_check_time, monI, monWake, monCycles,
                   csvPc, csvI, csvWake, network_dirs, last_written,
                   last_metrics_logged, current_time, metrics_timestamp,
                   added, appended, sinceDrain, attempted, flushTried,
                   failedTarget, cycleLabels>>
    /\ UNCHANGED <<cleanupVars, rtVars, queryVars>>

NextRestart ==
    \/ Tick
    \/ TickOnce
    \/ MonitorProbe
    \/ LoadRecentData
    \/ CycleBegin
    \/ Drain
    \/ Flush

SpecRestart == InitRestart /\ [][NextRestart]_vars

(***************************************************************************)
(* The network label cache: calls of get_current_network from a request    *)
(* handler at the instants of the model, the detection meeting any of its  *)
(* outcomes, while the startup load makes its own calls                    *)
(***************************************************************************)
InitLabel ==
    /\ InitThreads
    /\ disk = <<>>
    /\ mdisk = <<>>
    /\ dirs = {}
    /\ IdleCleanup
    /\ IdleRoundTrip
    /\ IdleQuery

\* one call of get_current_network(): netCall records the label returned,
\* the number of calls of get_wifi_network_name, what the detection met
\* and the instant of the call
GetCurrentNetwork ==
    /\ \E outcome \in DetectOutcomes :
          LET detected == get_wifi_network_name(outcome)
              stale == CacheStale(now)
          IN /\ netCall' = <<[label |-> get_current_network(now, detected),
                              detections |-> IF stale THEN 1 ELSE 0,
                              outcome |-> IF stale THEN outcome ELSE "",
                              time |-> now]>>
             /\ CacheUpdate(now, detected)
    /\ UNCHANGED <<now, store, disk, mdisk, dirs, monI, monWake, monCycles,
                   csvPc, csvI, csvWake, network_dirs, last_written,
                   last_metrics_logged, current_time, metrics_timestamp,
                   added, appended, sinceDrain, attempted, flushTried,
                   failedTarget, cycleLabels>>
    /\ UNCHANGED <<cleanupVars, rtVars, metrics, response, readVars, snVars,
                   pathOut>>

NextLabel ==
    \/ Tick
    \/ TickOnce
    \/ LoadRecentData
    \/ GetCurrentNetwork

SpecLabel == InitLabel /\ [][NextLabel]_vars

(***************************************************************************)
(* Cleanup: cleanup_old_logs of src/main.py (HTTP) and cleanup_old_data of *)
(* src/manage_data.py (CLI), run against files of several ages             *)
(***************************************************************************)
\* ages, in days before the start, of the files an earlier run may have left
FileAges == {0, 7, 8, 372}
\* the days_to_keep arguments of the model
DaysToKeepArgs == {3, 6, 7, 8}

OldKeys(network, ages) ==
    {<<network, t, Today(StartTime) - a>> : t \in TargetSet, a \in ages}

OldDisk(homeAges, cafeAges) ==
    [key \in OldKeys("home", homeAges) \cup OldKeys("cafe", cafeAges) |->
        <<HeaderRow, DataRow(Sample(key[3] * TicksPerDay, 10), key[1])>>]

InitCleanup ==
    /\ InitThreads
    /\ \E homeAges \in {{}, FileAges}, cafeAges \in {{}, FileAges} :
          /\ disk = OldDisk(homeAges, cafeAges)
          /\ mdisk = PrevMetrics(disk)
          /\ dirs = {key[1] : key \in DOMAIN disk}
    /\ IdleCleanup
    /\ IdleRoundTrip
    /\ IdleQuery

\* a guard that lets every positive days_to_keep through
CleanupRejected_NoFloor(days_to_keep) == days_to_keep < 1

\* "if days_to_keep < 7": the call returns without deleting
CleanupRejected(days_to_keep) == days_to_keep < CleanupFloor

\* a test that also takes the file dated at the cutoff
ShouldDelete_AtCutoff(check_date, cutoff_date) == check_date <= cutoff_date

\* "if check_date < cutoff_date"
ShouldDelete(check_date, cutoff_date) == check_date < cutoff_date

\* the loops of a cleanup reach the file under key and test it positive:
\* its network is one of those cleaned, its target is configured, and its
\* date is today - days_back for some days_back of
\* range(days_to_keep, days_to_keep + 365) with check_date < cutoff_date
CleanupTakes(key, days_to_keep, networks, today) ==
    /\ key[1] \in {sanitize_network_name(n) : n \in networks}
    /\ key[2] \in TargetSet
    /\ today - key[3] \in days_to_keep..(days_to_keep + CleanupSpan - 1)
    /\ ShouldDelete(key[3], today - days_to_keep)

\* the files left when those under keys are removed, the removals of
\* failing having raised
Remove(dsk, keys, failing) ==
    [key \in DOMAIN dsk \ (keys \ failing) |-> dsk[key]]

AtMostOne(S) == {{}} \cup {{x} : x \in S}

\* the deletions of a cleanup over a set of networks; os.remove / unlink may
\* raise for a file, which is then left in place
DeleteOld(days_to_keep, networks) ==
    LET raw == {key \in DOMAIN disk :
                   CleanupTakes(key, days_to_keep, networks, Today(now))}
        aggregate == {key \in DOMAIN mdisk :
                   CleanupTakes(key, days_to_keep, networks, Today(now))}
    IN /\ \E failing \in AtMostOne(raw \cup aggregate) :
             /\ disk' = Remove(disk, raw, failing)
             /\ mdisk' = Remove(mdisk, aggregate, failing)
       /\ dirs' = dirs \cup {sanitize_network_name(n) : n \in networks}

\* GET /api/logs/cleanup?days_to_keep=...: the files of the current network
cleanup_old_logs ==
    /\ \E days_to_keep \in DaysToKeepArgs :
          /\ cleanupArg' = days_to_keep
          /\ diskBefore' = <<DOMAIN disk, DOMAIN mdisk>>
          /\ IF CleanupRejected(days_to_keep)
             THEN UNCHANGED <<disk, mdisk, dirs, _current_network,
                              _network_check_time>>
             ELSE \E detected \in Networks :
                     /\ CacheUpdate(now, detected)
                     /\ DeleteOld(days_to_keep,
                                  {get_current_network(now, detected)})
    /\ UNCHANGED <<now, store, monI, monWake, monCycles, csvPc, csvI, csvWake,
                   network_dirs, last_written, last_metrics_logged,
                   current_time, metrics_timestamp, added, appended,
                   sinceDrain, attempted, flushTried, failedTarget,
                   cycleLabels>>
    /\ UNCHANGED <<rtVars, queryVars>>

\* manage_data.py cleanup --days-to-keep ... [--network ...]: the files of the
\* given network, or of every network directory when none is given
cleanup_old_data ==
    /\ \E days_to_keep \in DaysToKeepArgs, network \in Networks \cup {NoNetwork} :
          /\ cleanupArg' = days_to_keep
          /\ diskBefore' = <<DOMAIN disk, DOMAIN mdisk>>
          /\ IF CleanupRejected(days_to_keep)
             THEN UNCHANGED <<disk, mdisk, dirs>>
             ELSE DeleteOld(days_to_keep,
                            IF network # NoNetwork THEN {network} ELSE dirs)
    /\ UNCHANGED <<now, store, _current_network, _network_check_time, monI,
                   monWake, monCycles, csvPc, csvI, csvWake, network_dirs,
                   last_written, last_metrics_logged, current_time,
                   metrics_timestamp, added, appended, sinceDrain, attempted,
                   flushTried, failedTarget, cycleLabels>>
    /\ UNCHANGED <<rtVars, queryVars>>

NextCleanup ==
    \/ cleanup_old_logs
    \/ cleanup_old_data

SpecCleanup == InitCleanup /\ [][NextCleanup]_vars

(***************************************************************************)
(* Round trip of one batch through a raw partition file: append_csv_log,   *)
(* then the reading and decoding load_recent_data applies to the file      *)
(***************************************************************************)
\* longest batch of the model
MaxBatch == 2

RoundTripSamples ==
    {Sample(ts, latency) : ts \in {StartTime, StartTime + 1},
                           latency \in Latencies \cup {None}}

\* the batches: samples of the day of the start, in any order
RoundTripBatches ==
    UNION {[1..n -> RoundTripSamples] : n \in 0..MaxBatch}

InitRoundTrip ==
    /\ InitThreads
    /\ disk = <<>>
    /\ mdisk = <<>>
    /\ dirs = {}
    /\ IdleCleanup
    /\ rtBatch \in RoundTripBatches
    /\ rtPc = "write"
    /\ rtRead = <<>>
    /\ IdleQuery

\* append_csv_log(target, batch) on network "home", every write succeeding
RoundTripAppend ==
    /\ rtPc = "write"
    /\ disk' = append_csv_log(disk, TARGETS[1], rtBatch, "home", Len(rtBatch))
    /\ dirs' = IF rtBatch = <<>> THEN dirs ELSE dirs \cup {"home"}
    /\ rtPc' = "read"
    /\ UNCHANGED <<mdisk, rtBatch, rtRead>>
    /\ UNCHANGED pipelineVars
    /\ UNCHANGED <<cleanupVars, queryVars>>

\* the loader's read of that day's file: read_csv_as_dict_reader and the
\* decoding of each row, as in the loop body of load_recent_data
RoundTripLoad ==
    /\ rtPc = "read"
    /\ rtRead' = LoadFile(disk, get_daily_log_file(TARGETS[1], Today(StartTime),
                                                   "home"))
    /\ rtPc' = "done"
    /\ UNCHANGED <<disk, mdisk, dirs, rtBatch>>
    /\ UNCHANGED pipelineVars
    /\ UNCHANGED <<cleanupVars, queryVars>>

NextRoundTrip ==
    \/ RoundTripAppend
    \/ RoundTripLoad

SpecRoundTrip == InitRoundTrip /\ [][NextRoundTrip]_vars

(***************************************************************************)
(* Snapshots: get_metrics on a target whose deque holds any of the         *)
(* sequences a deque of RETENTION_SECONDS samples may hold, or one of      *)
(* LongWindow samples, which the capacity config.py sets (86400) can hold  *)
(***************************************************************************)
\* length of the long sequences
LongWindow == 20001

\* latencies, in thousandths of a millisecond: 0.342, 1.0, 1.5, 2.0
MetricLatencies == {342, 1000, 1500, 2000}

\* the short sequences, stamped one tick apart
ShortRecords ==
    UNION {{[i \in 1..n |-> Sample(StartTime + i, f[i])] :
               f \in [1..n -> MetricLatencies \cup {None}]} :
           n \in 0..RETENTION_SECONDS}

\* a long sequence: every sample has latency fill but the first, which has
\* latency first
LongRecords(first, fill) ==
    [i \in 1..LongWindow |->
        Sample(StartTime + i, IF i = 1 THEN first ELSE fill)]

LongSequences == {LongRecords(None, 1000), LongRecords(1000, None)}

InitMetrics ==
    /\ InitLocals
    /\ \E records \in ShortRecords \cup LongSequences :
          store = [t \in TargetSet |->
                       IF t = TARGETS[1] THEN records ELSE <<>>]
    /\ disk = <<>>
    /\ mdisk = <<>>
    /\ dirs = {}
    /\ IdleCleanup
    /\ IdleRoundTrip
    /\ IdleQuery

\* GET /api/metrics/{target}: metric_store.get_metrics(target)
Snapshot ==
    /\ \E target \in TargetSet : metrics' = <<get_metrics(store[target])>>
    /\ UNCHANGED <<disk, mdisk, dirs, response, readVars, snVars, netCall,
                   pathOut>>
    /\ UNCHANGED <<pipelineVars, cleanupVars, rtVars>>

NextMetrics == Snapshot

SpecMetrics == InitMetrics /\ [][NextMetrics]_vars

(***************************************************************************)
(* Readers of the store.  get_metrics (monitor.py:26) and the drain        *)
(* (csv_logger.py:227) copy a target's deque with list(deque), which makes *)
(* an iterator and takes the items one by one; the deque's iterator raises *)
(* RuntimeError ("deque mutated during iteration") when the deque was      *)
(* appended to after the iterator was made.  Neither the read nor          *)
(* MetricStore.add holds a lock, so an add of the monitor thread may fall  *)
(* between two steps of a read; where the interpreter runs the whole of    *)
(* list() without switching threads, only the schedules with no add inside *)
(* a read occur.  The number of appends a deque has seen is the length of  *)
(* the history added.                                                      *)
(***************************************************************************)
\* no read is under way
ReaderIdle == rdPc \in {"idle", "done", "RuntimeError"}

\* records = list(metric_store.data[target]) begins: iter(deque)
ReadBegin ==
    /\ csvPc # "load"
    /\ ReaderIdle
    /\ \E target \in TargetSet :
          /\ rdTarget' = target
          /\ rdState' = Len(added[target])
          /\ rdCounter' = Len(store[target])
    /\ rdView' = <<>>
    /\ rdPc' = "iter"
    /\ UNCHANGED <<disk, mdisk, dirs, metrics, response, snVars, netCall,
                   pathOut>>
    /\ UNCHANGED <<pipelineVars, cleanupVars, rtVars>>

\* one step of the copy: next(iterator)
ReadNext ==
    /\ rdPc = "iter"
    /\ IF Len(added[rdTarget]) # rdState
       THEN /\ rdPc' = "RuntimeError"
            /\ rdCounter' = 0
            /\ UNCHANGED rdView
       ELSE IF rdCounter = 0
            THEN /\ rdPc' = "done"
                 /\ UNCHANGED <<rdCounter, rdView>>
            ELSE /\ rdView' = Append(rdView,
                        store[rdTarget][Len(store[rdTarget]) - rdCounter + 1])
                 /\ rdCounter' = rdCounter - 1
                 /\ UNCHANGED rdPc
    /\ UNCHANGED <<rdTarget, rdState>>
    /\ UNCHANGED <<disk, mdisk, dirs, metrics, response, snVars, netCall,
                   pathOut>>
    /\ UNCHANGED <<pipelineVars, cleanupVars, rtVars>>

NextRead ==
    \/ MonitorProbe
    \/ LoadRecentData
    \/ ReadBegin
    \/ ReadNext

SpecRead == Init /\ [][NextRead]_vars

(***************************************************************************)
(* HTTP read queries (src/main.py), served once the import of csv_logger   *)
(* has run load_recent_data.  A response is kept by the query, its target  *)
(* and network, and the rows or names it reports.                          *)
(***************************************************************************)
\* the target, days and network arguments of the model; NoNetwork is a
\* request without a network argument
QueryTargets == TargetSet \cup {"example.org"}
QueryDays == {0, 1, 2}
QueryNetworks == {NoNetwork, "home", "guest"}

Response(query, target, network, data) ==
    <<[query |-> query, target |-> target, network |-> network, data |-> data]>>

\* {"error": "Invalid target"}
InvalidTarget(query, target) == Response(query, target, "", <<"Invalid target">>)

\* the directories the calls of get_daily_log_file or get_daily_metrics_file
\* of a query make sure exist: year_month_dir.mkdir(parents=True,
\* exist_ok=True) runs once per day of range(days)
QueryMkdir(dset, days, networks) ==
    IF days = 0 THEN dset
    ELSE dset \cup {sanitize_network_name(n) : n \in networks}

\* the rows a query reads from a partition file: df.tail(n) of the data rows
TailRows(dsk, key, n) ==
    IF key \in DOMAIN dsk THEN LastN(Tail(dsk[key]), n) ELSE <<>>

\* historical_data of get_metrics_history, newest day first
RECURSIVE HistoricalData(_, _, _, _, _)
HistoricalData(target, network, today, days_back, days) ==
    IF days_back >= days THEN <<>>
    ELSE LET key == get_daily_log_file(target, today - days_back, network)
             rest == HistoricalData(target, network, today, days_back + 1, days)
         IN IF key \in DOMAIN disk
            THEN <<[date |-> today - days_back,
                    raw_data |-> TailRows(disk, key, 100),
                    metrics |-> TailRows(mdisk, key, 50)]>> \o rest
            ELSE rest

\* the per-day entries get_daily_summary and compare_networks build from the
\* aggregate files of one network, newest day first
RECURSIVE DailySummaries(_, _, _, _, _)
DailySummaries(target, network, today, days_back, days) ==
    IF days_back >= days THEN <<>>
    ELSE LET key == get_daily_metrics_file(target, today - days_back, network)
             rest == DailySummaries(target, network, today, days_back + 1, days)
         IN IF key \in DOMAIN mdisk /\ Len(mdisk[key]) > 1
            THEN <<[date |-> today - days_back,
                    records_count |-> Len(mdisk[key]) - 1]>> \o rest
            ELSE rest

\* GET /api/metrics/{target}
get_snapshot ==
    /\ csvPc # "load"
    /\ \E target \in QueryTargets :
          response' = IF target \notin DOMAIN store
                      THEN InvalidTarget("metrics", target)
                      ELSE Response("metrics", target, "",
                                    <<get_metrics(store[target])>>)
    /\ UNCHANGED <<disk, mdisk, dirs, metrics, readVars, snVars, netCall,
                   pathOut>>
    /\ UNCHANGED <<pipelineVars, cleanupVars, rtVars>>

\* what the locals of the threads and the histories keep in a query
QueryFrame ==
    /\ UNCHANGED <<now, store, disk, mdisk, monI, monWake, monCycles, csvPc,
                   csvI, csvWake, network_dirs, last_written,
                   last_metrics_logged, current_time, metrics_timestamp,
                   added, appended, sinceDrain, attempted, flushTried,
                   failedTarget, cycleLabels>>
    /\ UNCHANGED <<metrics, readVars, snVars, netCall, pathOut, cleanupVars,
                   rtVars>>

\* GET /api/metrics/{target}/history?days=..&network=..
get_metrics_history ==
    /\ csvPc # "load"
    /\ \E target \in QueryTargets, days \in QueryDays,
          network_arg \in QueryNetworks, detected \in Networks :
          IF target \notin TargetSet
          THEN /\ response' = InvalidTarget("history", target)
               /\ UNCHANGED <<dirs, _current_network, _network_check_time>>
          ELSE LET network == IF network_arg = NoNetwork
                              THEN get_current_network(now, detected)
                              ELSE network_arg
               IN /\ IF network_arg = NoNetwork
                     THEN CacheUpdate(now, detected)
                     ELSE UNCHANGED <<_current_network, _network_check_time>>
                  /\ dirs' = QueryMkdir(dirs, days, {network})
                  /\ response' = Response("history", target, network,
                         HistoricalData(target, network, Today(now), 0, days))
    /\ QueryFrame

\* GET /api/metrics/{target}/summary?days=..&network=..
get_daily_summary ==
    /\ csvPc # "load"
    /\ \E target \in QueryTargets, days \in QueryDays,
          network_arg \in QueryNetworks, detected \in Networks :
          IF target \notin TargetSet
          THEN /\ response' = InvalidTarget("summary", target)
               /\ UNCHANGED <<dirs, _current_network, _network_check_time>>
          ELSE LET network == IF network_arg = NoNetwork
                              THEN get_current_network(now, detected)
                              ELSE network_arg
               IN /\ IF network_arg = NoNetwork
                     THEN CacheUpdate(now, detected)
                     ELSE UNCHANGED <<_current_network, _network_check_time>>
                  /\ dirs' = QueryMkdir(dirs, days, {network})
                  /\ response' = Response("summary", target, network,
                         DailySummaries(target, network, Today(now), 0, days))
    /\ QueryFrame

\* get_available_networks(): the directories under logs/
get_available_networks(dset) == dset

\* GET /api/metrics/{target}/compare-networks?days=..
compare_networks ==
    /\ csvPc # "load"
    /\ \E target \in QueryTargets, days \in QueryDays :
          IF target \notin TargetSet
          THEN /\ response' = InvalidTarget("compare", target)
               /\ UNCHANGED dirs
          ELSE LET networks == get_available_networks(dirs)
                   compared == {n \in networks :
                       DailySummaries(target, n, Today(now), 0, days) # <<>>}
               IN /\ dirs' = QueryMkdir(dirs, days, networks)
                  /\ response' = Response("compare", target, "", <<compared>>)
    /\ UNCHANGED <<_current_network, _network_check_time>>
    /\ QueryFrame

\* GET /api/networks
get_networks ==
    /\ csvPc # "load"
    /\ \E detected \in Networks :
          /\ CacheUpdate(now, detected)
          /\ response' = Response("networks", "",
                                  get_current_network(now, detected),
                                  <<get_available_networks(dirs)>>)
    /\ UNCHANGED dirs
    /\ QueryFrame

\* GET /api/logs/dates: the dates in the names of the files under logs/
get_available_dates ==
    /\ csvPc # "load"
    /\ response' = Response("dates", "", "",
           <<{key[3] : key \in DOMAIN disk \cup DOMAIN mdisk}>>)
    /\ UNCHANGED <<dirs, _current_network, _network_check_time>>
    /\ QueryFrame

NextQuery ==
    \/ LoadRecentData
    \/ get_snapshot
    \/ get_metrics_history
    \/ get_daily_summary
    \/ compare_networks
    \/ get_networks
    \/ get_available_dates

SpecQuery == Init /\ [][NextQuery]_vars

(***************************************************************************)
(* sanitize_network_name (src/wifi_detector.py) on names spelled out: a    *)
(* name is a sequence of characters, the empty sequence being the empty    *)
(* string or None, which the function treats alike.  The operator          *)
(* sanitize_network_name above is this function on the names of Networks,  *)
(* which it leaves as they are.                                            *)
(***************************************************************************)
\* longest of the enumerated names
MaxName == 3
\* "if len(sanitized) > 50: sanitized = sanitized[:50]"
MaxLabel == 50

LowerLetters == {"a", "b", "f", "k", "n", "o", "u", "w", "y", "e'"}
UpperLetters == {"A", "B", "F", "K", "N", "O", "U", "W", "Y"}
Digits == {"7"}
\* what str.isalnum accepts, and with "_" what \w matches; "e'" stands for a
\* letter outside ASCII
Alnum == LowerLetters \cup UpperLetters \cup Digits
WordChars == Alnum \cup {"_"}
\* the class [<>:"/\\|?*\s] of the first substitution
UnsafeChars == {"<", ">", ":", "/", "|", "?", "*", " "}

\* str.lower, character by character
LowerChar(c) ==
    CASE c = "A" -> "a" [] c = "B" -> "b" [] c = "F" -> "f" [] c = "K" -> "k"
      [] c = "N" -> "n" [] c = "O" -> "o" [] c = "U" -> "u" [] c = "W" -> "w"
      [] c = "Y" -> "y" [] OTHER -> c

Lower(name) == [i \in 1..Len(name) |-> LowerChar(name[i])]

Unknown == <<"u", "n", "k", "n", "o", "w", "n">>
OffAny == <<"o", "f", "f", "/", "a", "n", "y">>

\* re.sub(r'[<>:"/\\|?*\s]', "_", name)
ReplaceUnsafe(name) ==
    [i \in 1..Len(name) |-> IF name[i] \in UnsafeChars THEN "_" ELSE name[i]]

\* re.sub(r"[^\w\-_.]", "_", sanitized)
ReplaceNonWord(name) ==
    [i \in 1..Len(name) |->
        IF name[i] \in WordChars \cup {"-", "_", "."} THEN name[i] ELSE "_"]

\* re.sub(r"_+", "_", sanitized)
RECURSIVE CollapseUnderscores(_)
CollapseUnderscores(name) ==
    IF Len(name) < 2 THEN name
    ELSE IF name[1] = "_" /\ name[2] = "_"
         THEN CollapseUnderscores(Tail(name))
         ELSE <<name[1]>> \o CollapseUnderscores(Tail(name))

\* sanitized.strip("_")
RECURSIVE StripUnderscores(_)
StripUnderscores(name) ==
    IF name = <<>> THEN name
    ELSE IF name[1] = "_" THEN StripUnderscores(Tail(name))
    ELSE IF name[Len(name)] = "_"
         THEN StripUnderscores(SubSeq(name, 1, Len(name) - 1))
         ELSE name

\* a sanitizer without the length cap
Truncate_Never(name) == name

\* "if len(sanitized) > 50: sanitized = sanitized[:50]"
Truncate(name) ==
    IF Len(name) > MaxLabel THEN SubSeq(name, 1, MaxLabel) ELSE name

\* sanitize_network_name(name)
SanitizeName(name) ==
    IF name = <<>> \/ Lower(name) \in {Unknown, OffAny} THEN Unknown
    ELSE LET sanitized ==
                 Truncate(StripUnderscores(CollapseUnderscores(
                     ReplaceNonWord(ReplaceUnsafe(name)))))
         IN IF sanitized = <<>> THEN Unknown ELSE sanitized

\* the characters of the enumerated names
NameChars == {"a", "B", "7", "-", ".", "_", " ", "/", "#", "e'"}

\* n times the character c
Repeat(c, n) == [i \in 1..n |-> c]

\* every name of at most MaxName characters, the spellings of the sentinel
\* words, and names longer than the cap
SanitizeInputs ==
    UNION {[1..n -> NameChars] : n \in 0..MaxName}
    \cup {Unknown, <<"U", "n", "k", "n", "o", "w", "n">>, Unknown \o <<" ">>,
          OffAny, <<"O", "F", "F", "/", "A", "N", "Y">>}
    \cup {Repeat("a", MaxLabel + 1), Repeat("_", MaxLabel + 10),
          Repeat("a", MaxLabel - 1) \o <<" ", "/", "b">>,
          Repeat("#", MaxLabel) \o <<"a">> \o Repeat(" ", MaxLabel),
          Repeat("a", MaxLabel) \o <<"#", "#">>}

InitSanitize ==
    /\ InitThreads
    /\ disk = <<>>
    /\ mdisk = <<>>
    /\ dirs = {}
    /\ IdleCleanup
    /\ IdleRoundTrip
    /\ IdleHttp
    /\ snName \in SanitizeInputs
    /\ snOut = <<>>

\* sanitize_network_name(snName) is called and returns
Sanitize ==
    /\ snOut' = SanitizeName(snName)
    /\ UNCHANGED <<snName, disk, mdisk, dirs, metrics, response, readVars,
                   netCall, pathOut>>
    /\ UNCHANGED <<pipelineVars, cleanupVars, rtVars>>

NextSanitize == Sanitize

SpecSanitize == InitSanitize /\ [][NextSanitize]_vars

(***************************************************************************)
(* Partition paths on names spelled out: get_daily_log_file and            *)
(* get_daily_metrics_file (src/csv_logger.py) called with the network      *)
(* string of a request.  A path is a sequence of components relative to    *)
(* the working directory, a component being a sequence of characters.      *)
(***************************************************************************)
\* LOG_DIR = Path("logs")
LOG_DIR == << <<"l", "o", "g", "s">> >>

\* str(date_obj.year) and f"{date_obj.month:02d}" of the day of the start
YearMonth == << <<"1", "9", "7", "2">>, <<"0", "9">> >>

\* the name of the raw or of the aggregate file of a target and a day
FileName(kind) == IF kind = "raw" THEN <<"r", "a", "w">> ELSE <<"a", "g", "g">>

\* where the file system finds a path: "." stays in the directory, ".."
\* goes to its parent, and above the working directory ".." remains
RECURSIVE Resolve(_, _)
Resolve(done, path) ==
    IF path = <<>> THEN done
    ELSE IF Head(path) = <<".">> THEN Resolve(done, Tail(path))
    ELSE IF Head(path) = <<".", ".">>
         THEN IF done # <<>> /\ done[Len(done)] # <<".", ".">>
              THEN Resolve(SubSeq(done, 1, Len(done) - 1), Tail(path))
              ELSE Resolve(Append(done, Head(path)), Tail(path))
         ELSE Resolve(Append(done, Head(path)), Tail(path))

\* year_month_dir = LOG_DIR / sanitize_network_name(network) / year / month
YearMonthDir(network) == LOG_DIR \o <<SanitizeName(network)>> \o YearMonth

InitPath ==
    /\ InitThreads
    /\ disk = <<>>
    /\ mdisk = <<>>
    /\ dirs = {}
    /\ IdleCleanup
    /\ IdleRoundTrip
    /\ IdleHttp
    /\ snName \in SanitizeInputs
    /\ snOut = <<>>

\* get_daily_log_file or get_daily_metrics_file with network = snName:
\* pathOut records the directory that mkdir(parents=True) makes and the
\* file the returned path names
GetDailyFile ==
    /\ \E kind \in {"raw", "aggregate"} :
          pathOut' = <<[kind |-> kind,
                        made |-> Resolve(<<>>, YearMonthDir(snName)),
                        file |-> Resolve(<<>>, YearMonthDir(snName)
                                                \o <<FileName(kind)>>)]>>
    /\ UNCHANGED <<snVars, disk, mdisk, dirs, metrics, response, readVars,
                   netCall>>
    /\ UNCHANGED <<pipelineVars, cleanupVars, rtVars>>

NextPath == GetDailyFile

SpecPath == InitPath /\ [][NextPath]_vars

(***************************************************************************)
(* Properties                                                              *)
(***************************************************************************)
\* the raw partition files of one target
RawFiles(dsk, target) ==
    [key \in {k \in DOMAIN dsk : k[2] = target} |-> dsk[key]]

NoDuplicates(s) == \A i, j \in 1..Len(s) : i # j => s[i] # s[j]

\* the calendar day of an instant
DayOf(ts) == ts \div (SecondsPerDay * TicksPerSec)

\* C1: a target's sequence never holds more than capacity samples, and it is
\* exactly the last min(N, capacity) of the N samples added, in the order
\* they were added
C1_BoundedFifo ==
    \A t \in TargetSet :
        /\ Len(store[t]) <= RETENTION_SECONDS
        /\ LET N == Len(added[t])
               kept == Min(N, RETENTION_SECONDS)
           IN store[t] = [i \in 1..kept |-> added[t][N - kept + i]]

\* C1 witness: more samples than the capacity were added to a target
C1_Overflowed ==
    \E t \in TargetSet :
        /\ Len(added[t]) > RETENTION_SECONDS
        /\ Len(store[t]) = RETENTION_SECONDS

\* C2: a drain of a target that follows a drain of it with no sample added in
\* between appends no row to the target's raw files and leaves its
\* high-water mark as it is
C2_SecondDrainIdle ==
    [][\A t \in TargetSet :
          sinceDrain[t] = "clean" =>
              /\ RawFiles(disk', t) = RawFiles(disk, t)
              /\ last_written'[t] = last_written[t]]_vars

\* C3: while every partition write succeeds, no sample is appended to the
\* raw files twice in one run
C3_AppendedOnce ==
    failedTarget = "" => \A t \in TargetSet : NoDuplicates(appended[t])

\* C4: a cycle in which a raw append failed still ends with the drain of
\* every target attempted and the aggregate flush attempted
C4_CycleGoesOn ==
    (failedTarget # "" /\ csvPc \in {"cycle", "dead"}) =>
        (attempted = TargetSet /\ flushTried)

\* C5: a failed raw append leaves the high-water mark of the failed target,
\* and of every other target, as it was
C5_MarkWithheld ==
    [][(failedTarget = "" /\ failedTarget' # "") =>
          last_written' = last_written]_vars

\* C5 witness: an append failed after its first day-group was written, and
\* the mark of the failed target is still the initial one
C5_FailedAfterPartialWrite ==
    /\ failedTarget # ""
    /\ appended[failedTarget] # <<>>
    /\ last_written[failedTarget] = 0
    /\ \E t \in TargetSet : last_written[t] # 0

\* C6: after a failed partition write the persistence loop is still running
C6_LoopSurvives == failedTarget # "" => csvPc # "dead"

\* C8: a drain appends each sample of its batch to the raw file of the
\* sample's own day and of the drained target, in the order of the batch; no
\* other file changes, and a drain that succeeds changes as many files as the
\* batch has days
C8_SplitByDay ==
    [][(csvPc = "drain" /\ disk' # disk) =>
          LET target == TARGETS[csvI]
              batch == NewRecords(store[target], last_written[target])
              days == {DayOf(batch[i].timestamp) : i \in 1..Len(batch)}
              OldLen(key) == IF key \in DOMAIN disk THEN Len(disk[key]) ELSE 1
              Fresh(key) ==
                  [i \in 1..(Len(disk'[key]) - OldLen(key)) |->
                      disk'[key][OldLen(key) + i]]
              OfDay(d) ==
                  SelectSeqBy(batch,
                      {r \in Range(batch) : DayOf(r.timestamp) = d})
              changed == {key \in DOMAIN disk' : Fresh(key) # <<>>}
          IN /\ DOMAIN disk \subseteq DOMAIN disk'
             /\ \A key \in DOMAIN disk :
                   SubSeq(disk'[key], 1, Len(disk[key])) = disk[key]
             /\ \A key \in changed :
                   /\ key[2] = target
                   /\ key[3] \in days
                   /\ Len(Fresh(key)) = Len(OfDay(key[3]))
                   /\ \A i \in 1..Len(Fresh(key)) :
                         /\ Fresh(key)[i].timestamp = OfDay(key[3])[i].timestamp
                         /\ Fresh(key)[i].latency_ms
                                = CsvField(OfDay(key[3])[i].latency)
             /\ csvPc' # "dead" => Cardinality(changed) = Cardinality(days)]_vars

\* C8 witness: the first drain of a target wrote a batch of two days
C8_TwoDayBatchWritten ==
    \E t \in TargetSet :
        /\ failedTarget = ""
        /\ csvWake = 0
        /\ sinceDrain[t] = "clean"
        /\ \E i, j \in 1..Len(appended[t]) :
              DayOf(appended[t][i].timestamp) # DayOf(appended[t][j].timestamp)


\* C7: a batch of one day appended by append_csv_log and read back with the
\* loader's decoding gives the same (timestamp, latency) pairs in the same
\* order, none latencies included
C7_RoundTrip == rtPc = "done" => rtRead = rtBatch

\* the partition files, raw and aggregate
AllFiles == <<DOMAIN disk, DOMAIN mdisk>>

\* C9: a cleanup called with days_to_keep below 7 leaves the set of partition
\* files as it was before the call
C9_BelowFloorDeletesNothing ==
    (cleanupArg # None /\ cleanupArg < 7) => AllFiles = diskBefore

\* C9 witness: a cleanup with days_to_keep = 3 has run, and a raw file older
\* than 3 days, of an age its loops would visit, is on disk
C9_RejectedWithOldFiles ==
    /\ cleanupArg = 3
    /\ \E key \in DOMAIN disk :
          /\ key[3] < Today(now) - 3
          /\ key[3] > Today(now) - 3 - 365

\* C10: a cleanup deletes a raw or aggregate file only when days_to_keep is
\* at least 7 and the file's date is before today - days_to_keep, hence
\* before today - 7
C10_RecentFilesKept ==
    [][\A key \in (DOMAIN disk \ DOMAIN disk') \cup (DOMAIN mdisk \ DOMAIN mdisk') :
          /\ cleanupArg' >= 7
          /\ key[3] < Today(now) - cleanupArg'
          /\ key[3] < Today(now) - 7]_vars

\* C10 witness: a cleanup with days_to_keep >= 7 deleted files, and the file
\* dated exactly today - days_to_keep of a network it cleaned is still there
C10_DeletedButCutoffKept ==
    /\ cleanupArg # None
    /\ cleanupArg >= 7
    /\ \E gone \in diskBefore[1] \ DOMAIN disk :
          <<gone[1], gone[2], Today(now) - cleanupArg>> \in DOMAIN disk

\* the result of the last snapshot, its records, and their valid latencies
Snap == metrics[1]
SnapValid == valid_latencies(Snap.records)

\* C11: a snapshot of a sequence without a sample that has a latency reports
\* a loss of 100.0 and null for every other field
C11_NoLatencyAllNull ==
    (metrics # <<>> /\ \A i \in 1..Len(Snap.records) :
                          Snap.records[i].latency = None) =>
        /\ Snap.packet_loss_percent = 10000
        /\ Snap.average_latency = None
        /\ Snap.min_latency = None
        /\ Snap.max_latency = None
        /\ Snap.jitter = None
        /\ Snap.std_deviation = None

\* C11 witness: a snapshot was taken of a non-empty sequence of unreachable
\* samples
C11_AllUnreachableSnapshot ==
    /\ metrics # <<>>
    /\ Len(Snap.records) = RETENTION_SECONDS
    /\ \A i \in 1..Len(Snap.records) : Snap.records[i].latency = None

\* the last snapshot was taken of a sequence with exactly one valid latency
OneValid == metrics # <<>> /\ Len(SnapValid) = 1

\* C12 as claimed: with exactly one valid latency L, jitter and
\* std_deviation are 0.0 and min_latency, max_latency and average_latency
\* are L itself
C12_SingletonIsLatency ==
    OneValid =>
        /\ Snap.jitter = 0
        /\ Snap.std_deviation = 0
        /\ 10 * Snap.min_latency = SnapValid[1]
        /\ 10 * Snap.max_latency = SnapValid[1]
        /\ 10 * Snap.average_latency = SnapValid[1]

\* C12 amended: with exactly one valid latency L, jitter and std_deviation
\* are 0.0, never null, and min_latency, max_latency and average_latency
\* are L rounded to two decimals
C12_SingletonIsRounded ==
    OneValid =>
        /\ Snap.jitter = 0
        /\ Snap.std_deviation = 0
        /\ Snap.min_latency = RoundHalfEven(SnapValid[1], 10)
        /\ Snap.max_latency = Snap.min_latency
        /\ Snap.average_latency = Snap.min_latency

\* C12 witness: a snapshot of one valid sample between two unreachable ones,
\* its latency having three decimals
C12_OneValidSurrounded ==
    /\ OneValid
    /\ Len(Snap.records) = 3
    /\ Snap.records[2].latency = 342
    /\ Snap.min_latency = 34

\* the sum of the gaps between consecutive elements of v, in the order of v
GapSum(v) ==
    SumBetween([i \in 1..(Len(v) - 1) |-> Abs(v[i + 1] - v[i])],
               1, Len(v) - 1)

\* the last snapshot was taken of a sequence with two valid latencies or more
TwoValid == metrics # <<>> /\ Len(SnapValid) >= 2

\* C13 as claimed: with at least two valid latencies, jitter is the mean of
\* the absolute differences of consecutive valid latencies in stored order
C13_JitterIsMean ==
    TwoValid => 10 * (Len(SnapValid) - 1) * Snap.jitter = GapSum(SnapValid)

\* C13 amended: with at least two valid latencies, jitter is the mean of the
\* absolute differences of consecutive valid latencies in stored order,
\* unreachable samples skipped, rounded to two decimals; the latencies
\* 1.0, 2.0, 1.5 in that order give 0.75
C13_JitterIsRoundedMean ==
    TwoValid =>
        /\ Snap.jitter = RoundHalfEven(GapSum(SnapValid),
                                       10 * (Len(SnapValid) - 1))
        /\ SnapValid = <<1000, 2000, 1500>> => Snap.jitter = 75

\* C13 witness: a snapshot of the latencies 1.0, 2.0, 1.5 stored in that
\* order, for which sorted order would give 0.5
C13_UnsortedSnapshot ==
    /\ TwoValid
    /\ SnapValid = <<1000, 2000, 1500>>
    /\ Snap.jitter = 75

\* the numbers of samples and of valid samples of the last snapshot
SnapN == Len(Snap.records)
SnapV == Len(SnapValid)

C15_OneLabelPerCycle == Cardinality(cycleLabels) <= 1

\* the content of a target's deque after the first k adds to it
StoreAfter(t, k) ==
    LET kept == Min(k, RETENTION_SECONDS)
    IN [i \in 1..kept |-> added[t][k - kept + i]]

Probed(t) ==
    SelectSeqBy(added[t], {r \in Range(added[t]) : r.timestamp >= StartTime})

\* C17: the Scheduler loop is always on one of the targets, and every target
\* has one sample per completed cycle plus one if the running cycle has
\* passed it: each cycle adds exactly one sample per target, in
\* configuration order, whatever the probes return
C17_OneSamplePerTarget ==
    /\ monI \in 1..Len(TARGETS)
    /\ \A i \in 1..Len(TARGETS) :
          Len(Probed(TARGETS[i])) = monCycles + (IF i < monI THEN 1 ELSE 0)

\* C17 witness: the probe of the first target failed and was recorded with
\* no latency, and the second target was probed and recorded after it
C17_FailedProbeThenNext ==
    /\ Len(Probed(TARGETS[1])) = 1
    /\ Probed(TARGETS[1])[1].latency = None
    /\ Len(Probed(TARGETS[2])) = 1
    /\ Probed(TARGETS[2])[1].latency = 10

\* C18: a read query of the HTTP layer leaves the store, the partition
\* files and the network directories under logs/ as they were
C18_QueriesReadOnly ==
    [][csvPc # "load" =>
          /\ store' = store
          /\ disk' = disk
          /\ mdisk' = mdisk
          /\ dirs' = dirs]_vars

\* C19: while the drain is at a target none of whose stored samples is later
\* than the target's high-water mark (the sequence may be empty), no step
\* changes a high-water mark or creates or changes a raw partition file
C19_EmptyDrainIsNoOp ==
    [][(/\ csvPc = "drain"
        /\ \A r \in Range(store[TARGETS[csvI]]) :
              iso_to_epoch(r.timestamp) <= last_written[TARGETS[csvI]]) =>
          /\ last_written' = last_written
          /\ disk' = disk]_vars

\* C19 witness: the drains of a cycle have run, that of one target on an
\* empty sequence: its mark is still zero and it has no raw file
C19_DrainedEmpty ==
    /\ csvPc = "flush"
    /\ \E t \in TargetSet :
          /\ added[t] = <<>>
          /\ last_written[t] = 0
          /\ \A key \in DOMAIN disk : key[2] # t

\* the name holds no character that survives the substitutions and the strip
SanitizesToNothing(name) ==
    \A i \in 1..Len(name) : name[i] \notin Alnum \cup {"-", "."}

\* C20: the label sanitize_network_name returns consists of alphanumeric
\* characters, "-", "_" and "." only, has between 1 and 50 characters, and is
\* "unknown" when the name is empty, is "unknown" or "off/any" in any case,
\* or sanitizes to nothing
C20_LabelIsSafe ==
    snOut # <<>> =>
        /\ \A i \in 1..Len(snOut) : snOut[i] \in Alnum \cup {"-", "_", "."}
        /\ Len(snOut) \in 1..50
        /\ (\/ snName = <<>>
            \/ Lower(snName) \in {Unknown, OffAny}
            \/ SanitizesToNothing(snName)) => snOut = Unknown

\* C20 witness: a name longer than the cap with unsafe characters in it was
\* sanitized to a label of exactly 50 characters
C20_LongNameCapped ==
    /\ Len(snName) > 50
    /\ \E i \in 1..Len(snName) : snName[i] \in UnsafeChars
    /\ Len(snOut) = 50

\* a step of the drain loop that returned: the drain of TARGETS[csvI]
DrainReturns ==
    /\ csvPc = "drain"
    /\ csvPc' # "dead"
    /\ <<csvPc, csvI>>' # <<csvPc, csvI>>

\* the samples the step appended to the raw files of target t
FreshlyAppended(t) ==
    {appended'[t][i] : i \in (Len(appended[t]) + 1)..Len(appended'[t])}

\* the instant a high-water mark of hw whole seconds denotes
MarkInstant(hw) == hw * TicksPerSec

\* C21: a drain selects exactly the samples of the target's sequence whose
\* timestamp is later than the target's high-water mark, by however little,
\* and none at or before it
C21_SelectsAboveMark ==
    [][DrainReturns =>
          LET t == TARGETS[csvI]
          IN FreshlyAppended(t) =
                 {r \in Range(store[t]) :
                     r.timestamp > MarkInstant(last_written[t])}]_vars

\* the largest element of a non-empty set of numbers
MaxOf(S) == CHOOSE m \in S : \A y \in S : y <= m

\* C22: after a successful drain of a non-empty batch, the target's
\* high-water mark is the timestamp, in whole seconds, of the latest sample
\* of the batch, and no sample written for the target in this run has a
\* timestamp above the mark
C22_MarkIsLatestWritten ==
    [][(DrainReturns /\ FreshlyAppended(TARGETS[csvI]) # {}) =>
          LET t == TARGETS[csvI]
          IN /\ last_written'[t] =
                    MaxOf({iso_to_epoch(r.timestamp) : r \in FreshlyAppended(t)})
             /\ \A r \in Range(appended'[t]) :
                    iso_to_epoch(r.timestamp) <= last_written'[t]]_vars

\* C23: in every state each target's stored sequence is in non-decreasing
\* timestamp order
C23_StoreOrdered ==
    \A t \in TargetSet : \A i \in 1..(Len(store[t]) - 1) :
        store[t][i].timestamp <= store[t][i + 1].timestamp

\* C24: a step changes a target's stored sequence only if it is a step of
\* the Scheduler loop
C24_OnlySchedulerWrites ==
    [][store' # store => <<monI, monCycles>>' # <<monI, monCycles>>]_vars

\* where the aggregate files hold a row of target t stamped ts
MetricsRowsAt(mdsk, t, ts) ==
    UNION {{<<key, i>> : i \in {j \in 1..Len(mdsk[key]) :
                                   /\ mdsk[key][j].kind = "data"
                                   /\ mdsk[key][j].timestamp = ts}} :
           key \in {k \in DOMAIN mdsk : k[2] = t}}

\* the number of rows in the aggregate files
MetricsRowCount(mdsk) ==
    Cardinality(UNION {{<<key, i>> : i \in {j \in 1..Len(mdsk[key]) :
                                               mdsk[key][j].kind = "data"}} :
                       key \in DOMAIN mdsk})

\* C25: a persistence cycle that completes has run the aggregate flush once:
\* each step of it appends one aggregate row, and when the cycle ends the
\* aggregate files hold exactly one row per target with the cycle's
\* timestamp, rows of other cycles having other timestamps
C25_OneFlushPerCycle ==
    /\ []((csvPc = "cycle" /\ csvWake # 0) =>
             /\ flushTried
             /\ \A t \in TargetSet :
                   Cardinality(MetricsRowsAt(mdisk, t, metrics_timestamp)) = 1)
    /\ [][mdisk' # mdisk =>
             /\ csvPc = "flush"
             /\ MetricsRowCount(mdisk') = MetricsRowCount(mdisk) + 1
             /\ MetricsRowsAt(mdisk', TARGETS[csvI], metrics_timestamp')
                    # MetricsRowsAt(mdisk, TARGETS[csvI], metrics_timestamp')
       ]_vars

\* C25 witness: the second cycle of the run has completed and its rows are
\* in the aggregate files along with those of the first
C25_TwoCyclesFlushed ==
    /\ csvPc = "cycle"
    /\ csvWake >= StartTime + 2 * LongStep
    /\ \A t \in TargetSet :
          /\ MetricsRowsAt(mdisk, t, metrics_timestamp) # {}
          /\ MetricsRowsAt(mdisk, t, StartTime) # {}

\* every file of dsk is still in dsk2, with its content as a prefix
PrefixOf(dsk, dsk2) ==
    \A key \in DOMAIN dsk :
        /\ key \in DOMAIN dsk2
        /\ Len(dsk[key]) <= Len(dsk2[key])
        /\ SubSeq(dsk2[key], 1, Len(dsk[key])) = dsk[key]

\* every file of dsk is one header row followed by data rows only
HeaderThenData(dsk) ==
    \A key \in DOMAIN dsk :
        /\ dsk[key] # <<>>
        /\ dsk[key][1].kind = "header"
        /\ \A i \in 2..Len(dsk[key]) : dsk[key][i].kind = "data"

\* C26: a step of the persistence loop leaves the content of each raw and
\* aggregate file as a prefix of its new content, and each file is one header
\* row followed by data rows only
C26_AppendOnly ==
    [][/\ PrefixOf(disk, disk')
       /\ PrefixOf(mdisk, mdisk')
       /\ HeaderThenData(disk) /\ HeaderThenData(disk')
       /\ HeaderThenData(mdisk) /\ HeaderThenData(mdisk')]_vars

\* C26 witness: a drain appended a sample of this run to a raw file an
\* earlier run had left, and a flush created an aggregate file
C26_AppendedAndCreated ==
    /\ \E key \in DOMAIN disk :
          /\ Len(disk[key]) > 2
          /\ disk[key][2].timestamp < StartTime
          /\ \E r \in Range(added[key[2]]) :
                /\ r.timestamp >= StartTime
                /\ disk[key][Len(disk[key])].timestamp = r.timestamp
    /\ \E key \in DOMAIN mdisk :
          /\ Len(mdisk[key]) = 2
          /\ mdisk[key][2].timestamp >= StartTime

\* C27: the marks are zero when the persistence loop starts; the first drain
\* of a target after the start appends every sample of the target's
\* sequence, and a later drain appends no sample already appended in the run
C27_FirstDrainWritesAll ==
    [][DrainReturns =>
          LET t == TARGETS[csvI]
          IN IF sinceDrain[t] = "none"
             THEN /\ last_written[t] = 0
                  /\ FreshlyAppended(t) = Range(store[t])
             ELSE FreshlyAppended(t) \cap Range(appended[t]) = {}]_vars

\* a label is cached and at most 300 seconds have passed since its detection
CachedAndFresh ==
    /\ _current_network # NoNetwork
    /\ _network_check_time # None
    /\ now - _network_check_time <= 300 * TicksPerSec

\* C28: a call of get_current_network with a label cached for at most 300
\* seconds returns it without a detection and leaves the cache alone; any
\* other call runs one detection, caches its result with the instant of the
\* call and returns it, the result being "unknown" when the detection failed
C28_CachedOrDetectedOnce ==
    [][netCall' # netCall =>
          LET call == netCall'[1]
          IN IF CachedAndFresh
             THEN /\ call.detections = 0
                  /\ call.label = _current_network
                  /\ UNCHANGED <<_current_network, _network_check_time>>
             ELSE /\ call.detections = 1
                  /\ call.label \in {"home", "cafe", "unknown"}
                  /\ call.outcome \in {"not_found", "unsupported", "exception"}
                         => call.label = "unknown"
                  /\ _current_network' = call.label
                  /\ _network_check_time' = now]_vars

\* C28 witness: a call made exactly 300 seconds after a failed detection
\* returned the cached "unknown" without detecting
C28_CachedAtTheLimit ==
    /\ netCall # <<>>
    /\ netCall[1].detections = 0
    /\ netCall[1].label = "unknown"
    /\ netCall[1].time = _network_check_time + 300 * TicksPerSec

\* C29: within a run no step lowers a target's high-water mark: it stays as
\* it is or moves to a strictly greater value
C29_MarkNeverDecreases ==
    [][\A t \in TargetSet : last_written'[t] >= last_written[t]]_vars

\* C29 witness: the mark of a target was moved by two drains of a store that
\* is not in timestamp order, the second of which wrote a sample again
C29_MovedTwiceOutOfOrder ==
    \E t \in TargetSet :
        /\ ~NoDuplicates(appended[t])
        /\ \E i \in 1..(Len(store[t]) - 1) :
              store[t][i].timestamp > store[t][i + 1].timestamp
        /\ last_written[t] =
               iso_to_epoch(appended[t][Len(appended[t])].timestamp)

\* C30: no raw file of a network holds a row taken from a raw file of
\* another network: a row recorded before this run began appears, for a
\* given target, in the files of one network only
C30_NoForeignRows ==
    \A key \in DOMAIN disk : \A other \in DOMAIN disk :
        (key[1] # other[1] /\ key[2] = other[2]) =>
            \A i \in 2..Len(disk[key]) : \A j \in 2..Len(disk[other]) :
                disk[key][i].timestamp < StartTime =>
                    disk[key][i].timestamp # disk[other][j].timestamp

\* C31: whatever network string a caller passes, the directory that
\* get_daily_log_file or get_daily_metrics_file creates and the path it
\* returns lie inside logs/, in the subdirectory of the sanitized network name
C31_PathInsideLogs ==
    pathOut # <<>> =>
        LET own == LOG_DIR \o <<SanitizeName(snName)>>
        IN /\ Len(pathOut[1].made) = 4
           /\ SubSeq(pathOut[1].made, 1, 2) = own
           /\ Len(pathOut[1].file) = 5
           /\ SubSeq(pathOut[1].file, 1, 2) = own

====
